---- MODULE Spec2Model ----
(***************************************************************************)
(* Inventory backend: the low-stock alert endpoint (low_stock_alerts.py),  *)
(* its database-free demo (demo_test.py) and the product-creation endpoint *)
(* (create_product.py).                                                    *)
(*                                                                         *)
(* The alert endpoint is one SQL query followed by a Python loop.  The     *)
(* query is modelled relationally: every table is a set of rows, every     *)
(* CTE and join is a set comprehension, DISTINCT ON and ORDER BY return    *)
(* any result the SQL semantics allow when their sort keys tie.           *)
(* Nullable columns hold NULL (the empty tuple) or Some(v) (a 1-tuple).    *)
(* Rates are exact rationals <<numerator, denominator>>; the rounding of   *)
(* double precision arithmetic is outside the model.                      *)
(***************************************************************************)
EXTENDS Integers, Sequences, FiniteSets, TLC

VARIABLES
    now,                  \* evaluation time NOW(), in days
    products,             \* table products
    warehouses,           \* table warehouses
    inventory,            \* table inventory
    inventory_movements,  \* table inventory_movements
    suppliers,            \* table suppliers
    supplier_products,    \* table supplier_products
    response,             \* the last response of an alert handler
    Product,              \* committed rows of the Product model
    Inventory,            \* committed rows of the Inventory model
    next_id,              \* the sequence behind Product.id
    session               \* per create_product request: position and transaction

alertVars == <<now, products, warehouses, inventory, inventory_movements,
               suppliers, supplier_products, response>>
createVars == <<Product, Inventory, next_id, session>>
snapshot == <<now, products, warehouses, inventory, inventory_movements,
              suppliers, supplier_products>>
vars == <<now, products, warehouses, inventory, inventory_movements,
          suppliers, supplier_products, response,
          Product, Inventory, next_id, session>>

----------------------------------------------------------------------------
(* Program constants *)

DEFAULT_THRESHOLD == 10
WINDOW_DAYS == 30
NO_SALES_DAYS == 999
CAP_DAYS == 999

(* Bounds of the model *)

MaxMovements == 2     \* rows of inventory_movements in the movement family
MaxCost == 2          \* cost_price ranges over 1..MaxCost
NumRequests == 2      \* create_product requests in flight

----------------------------------------------------------------------------
(* SQL and Python values *)

NULL == <<>>
Some(v) == <<v>>

\* COALESCE(x, y) over nullable values
COALESCE(x, y) == IF x # NULL THEN x ELSE y

\* Python truthiness of a nullable integer / a nullable string
TruthyInt(x) == x # NULL /\ x[1] # 0
TruthyStr(x) == x # NULL /\ x[1] # ""

\* Python `x or d` for a nullable string
OrStr(x, d) == IF TruthyStr(x) THEN x[1] ELSE d

Min(a, b) == IF a <= b THEN a ELSE b

\* CEIL(n / d) for d > 0, exact
CEIL(n, d) == -((-n) \div d)

\* Python int(n / d) for d > 0: truncation toward zero
PyInt(n, d) == IF n >= 0 THEN n \div d ELSE -((-n) \div d)

RECURSIVE SumAbs(_)
\* SUM(ABS(im.quantity)) over a set of movement rows
SumAbs(S) ==
    IF S = {} THEN 0
    ELSE LET m == CHOOSE x \in S : TRUE
             a == IF m.quantity < 0 THEN -m.quantity ELSE m.quantity
         IN a + SumAbs(S \ {m})

----------------------------------------------------------------------------
(* CTE recent_sales *)

\* the WHERE clause without its test of the sign
QualifyingMovementAnySign(im) ==
    /\ im.movement_type = "out"
    /\ im.created_at >= now - WINDOW_DAYS

\* WHERE clause of recent_sales
QualifyingMovement(im) ==
    /\ im.movement_type = "out"
    /\ im.created_at >= now - WINDOW_DAYS
    /\ im.quantity < 0

\* the rows of one GROUP BY group
MovementGroup(w, p) ==
    {im \in inventory_movements :
        QualifyingMovement(im) /\ im.warehouse_id = w /\ im.product_id = p}

\* COUNT(DISTINCT DATE(im.created_at))
ActiveDays(G) == Cardinality({im.created_at : im \in G})

\* daily_sales_rate as <<numerator, denominator>>
DailySalesRate(G) ==
    IF ActiveDays(G) > 0 THEN <<SumAbs(G), ActiveDays(G)>> ELSE <<0, 1>>

recent_sales ==
    {[warehouse_id |-> k[1], product_id |-> k[2],
      total_sold |-> SumAbs(MovementGroup(k[1], k[2])),
      active_days |-> ActiveDays(MovementGroup(k[1], k[2])),
      daily_sales_rate |-> DailySalesRate(MovementGroup(k[1], k[2]))] :
        k \in {g \in {<<im.warehouse_id, im.product_id>> :
                        im \in {x \in inventory_movements : QualifyingMovement(x)}} :
                 SumAbs(MovementGroup(g[1], g[2])) > 0}}

----------------------------------------------------------------------------
(* CTE preferred_suppliers *)

\* JOIN suppliers ... WHERE sp.is_active = true AND s.status = 'active'
SupplierCandidates(p) ==
    {[product_id |-> sp.product_id,
      supplier_id |-> Some(s.id),
      supplier_name |-> s.name,
      contact_email |-> COALESCE(s.email, s.contact_person),
      is_preferred_supplier |-> sp.is_preferred_supplier,
      cost_price |-> sp.cost_price] :
        <<sp, s>> \in {c \in supplier_products \X suppliers :
                         /\ c[1].product_id = p
                         /\ c[2].id = c[1].supplier_id
                         /\ c[1].is_active
                         /\ c[2].status = "active"}}

\* the order without its first key
SupplierBeforeByCost(a, b) == a.cost_price < b.cost_price

\* ORDER BY sp.is_preferred_supplier DESC, sp.cost_price ASC: a sorts
\* strictly before b
SupplierBefore(a, b) ==
    \/ a.is_preferred_supplier /\ ~b.is_preferred_supplier
    \/ /\ a.is_preferred_supplier = b.is_preferred_supplier
       /\ a.cost_price < b.cost_price

\* DISTINCT ON (sp.product_id) keeps the first row of each product; the
\* rows that may come first are those no other row sorts before
FirstCandidates(p) ==
    {c \in SupplierCandidates(p) :
        \A d \in SupplierCandidates(p) : ~SupplierBefore(d, c)}

ProductsWithCandidates ==
    {sp.product_id : sp \in {x \in supplier_products :
                                SupplierCandidates(x.product_id) # {}}}

\* every result the CTE can have: one first row per product
preferred_suppliers ==
    {{f[p] : p \in ProductsWithCandidates} :
        f \in {g \in [ProductsWithCandidates ->
                        UNION {FirstCandidates(p) : p \in ProductsWithCandidates}] :
                 \A p \in ProductsWithCandidates : g[p] \in FirstCandidates(p)}}

----------------------------------------------------------------------------
(* Main SELECT *)

\* the threshold with a reorder_level of 0 taken as unset
ThresholdOrDefault(p) ==
    IF TruthyInt(p.reorder_level) THEN p.reorder_level[1] ELSE DEFAULT_THRESHOLD

\* COALESCE(p.reorder_level, 10)
Threshold(p) == COALESCE(p.reorder_level, Some(DEFAULT_THRESHOLD))[1]

\* CASE WHEN rate > 0 THEN CEIL(quantity_available / rate) ELSE 999 END
DaysUntilStockout(quantity_available, rate) ==
    IF rate[1] > 0
    THEN CEIL(quantity_available * rate[2], rate[1])
    ELSE NO_SALES_DAYS

\* WHERE clause of the main SELECT
RowFilter(i, w, p, company_id) ==
    /\ w.company_id = company_id
    /\ i.quantity_available <= Threshold(p)
    /\ p.is_active
    /\ w.status = "active"

\* the join as an inner join
InnerJoinSupplier(ps, p) == {r \in ps : r.product_id = p.id}

\* LEFT JOIN preferred_suppliers ps ON ps.product_id = p.id
LeftJoinSupplier(ps, p) ==
    IF \E r \in ps : r.product_id = p.id
    THEN {r \in ps : r.product_id = p.id}
    ELSE {[product_id |-> p.id, supplier_id |-> NULL, supplier_name |-> NULL,
           contact_email |-> NULL, is_preferred_supplier |-> FALSE,
           cost_price |-> 0]}

\* FROM inventory i JOIN warehouses w JOIN products p JOIN recent_sales rs
\* ... WHERE ...
JoinedRows(company_id) ==
    {x \in inventory \X warehouses \X products \X recent_sales :
        /\ x[1].warehouse_id = x[2].id
        /\ x[1].product_id = x[3].id
        /\ x[4].warehouse_id = x[1].warehouse_id
        /\ x[4].product_id = x[1].product_id
        /\ RowFilter(x[1], x[2], x[3], company_id)}

\* the SELECT list
SelectRow(i, w, p, rs, s) ==
    [product_id |-> p.id,
     product_name |-> p.name,
     sku |-> p.sku,
     warehouse_id |-> i.warehouse_id,
     warehouse_name |-> w.name,
     current_stock |-> i.quantity_available,
     threshold |-> Threshold(p),
     days_until_stockout |->
         DaysUntilStockout(i.quantity_available, rs.daily_sales_rate),
     supplier_id |-> s.supplier_id,
     supplier_name |-> s.supplier_name,
     contact_email |-> s.contact_email,
     daily_sales_rate |-> rs.daily_sales_rate,
     units_sold_30_days |-> rs.total_sold]

\* the result rows of the query, unordered, for one result ps of the CTE
ResultRows(company_id, ps) ==
    UNION {{SelectRow(x[1], x[2], x[3], x[4], s) : s \in LeftJoinSupplier(ps, x[3])} :
              x \in JoinedRows(company_id)}

\* ORDER BY CASE ... END ASC, i.quantity_available ASC: a sorts strictly
\* before b
OrderBefore(a, b) ==
    \/ a.days_until_stockout < b.days_until_stockout
    \/ /\ a.days_until_stockout = b.days_until_stockout
       /\ a.current_stock < b.current_stock

RECURSIVE OrderBy(_)
\* every sequence the ORDER BY can return for a set of rows: rows with equal
\* keys come in any order
OrderBy(R) ==
    IF R = {} THEN {<<>>}
    ELSE UNION {{<<r>> \o s : s \in OrderBy(R \ {r})} :
                   r \in {m \in R : \A o \in R : ~OrderBefore(o, m)}}

\* every result the query can return for company_id
QueryResults(company_id) ==
    UNION {OrderBy(ResultRows(company_id, ps)) : ps \in preferred_suppliers}

----------------------------------------------------------------------------
(* low_stock_alerts: the Python loop over the result *)

NoSupplier ==
    [id |-> NULL, name |-> "No Supplier Found",
     contact_email |-> "No Contact Available"]

\* the "supplier" entry of an alert
SupplierOf(row) ==
    IF TruthyInt(row.supplier_id)
    THEN [id |-> row.supplier_id,
          name |-> OrStr(row.supplier_name, "No Supplier Found"),
          contact_email |-> OrStr(row.contact_email, "No Contact Available")]
    ELSE NoSupplier

\* min(row.days_until_stockout, 999)
CapDays(d) == Min(d, CAP_DAYS)

AlertOf(row) ==
    [product_id |-> row.product_id,
     product_name |-> row.product_name,
     sku |-> row.sku,
     warehouse_id |-> row.warehouse_id,
     warehouse_name |-> row.warehouse_name,
     current_stock |-> row.current_stock,
     threshold |-> row.threshold,
     days_until_stockout |-> CapDays(row.days_until_stockout),
     supplier |-> SupplierOf(row)]

AlertsOf(result) == [k \in 1..Len(result) |-> AlertOf(result[k])]

\* the test with 0 let through
InvalidCompanyNegative(company_id) == company_id < 0

\* if company_id <= 0
InvalidCompany(company_id) == company_id <= 0

\* a response: the JSON body and the status code; queried records whether
\* the handler executed its query
ErrorResponse(handler, company_id, error, status, queried) ==
    [handler |-> handler, company_id |-> company_id, status |-> status,
     body |-> [error |-> error], queried |-> queried]

AlertResponse(handler, company_id, alerts, queried) ==
    [handler |-> handler, company_id |-> company_id, status |-> 200,
     body |-> [alerts |-> alerts, total_alerts |-> Len(alerts)],
     queried |-> queried]

\* GET /api/companies/<company_id>/alerts/low-stock
low_stock_alerts(company_id) ==
    /\ \/ /\ InvalidCompany(company_id)
          /\ response' = ErrorResponse("low_stock_alerts", company_id,
                                       "Invalid company ID", 400, FALSE)
       \/ /\ ~InvalidCompany(company_id)
          /\ \E result \in QueryResults(company_id) :
                 response' = AlertResponse("low_stock_alerts", company_id,
                                           AlertsOf(result), TRUE)
       \/ \* connect or execute raises: except Exception
          /\ ~InvalidCompany(company_id)
          /\ response' = ErrorResponse("low_stock_alerts", company_id,
                                       "Internal server error", 500, TRUE)
    /\ UNCHANGED <<snapshot, createVars>>

----------------------------------------------------------------------------
(* demo_test.py: simulate_low_stock_alerts *)

mock_data ==
    << [product_id |-> 123, product_name |-> "Widget A", sku |-> "WID-001",
        warehouse_id |-> 456, warehouse_name |-> "Main Warehouse",
        current_stock |-> 5, threshold |-> 20,
        daily_sales_rate |-> <<2, 5>>,          \* 0.4
        supplier_id |-> 789, supplier_name |-> "Supplier Corp",
        contact_email |-> "orders@supplier.com"],
       [product_id |-> 124, product_name |-> "Widget B", sku |-> "WID-002",
        warehouse_id |-> 457, warehouse_name |-> "Secondary Warehouse",
        current_stock |-> 3, threshold |-> 15,
        daily_sales_rate |-> <<1, 4>>,          \* 0.25
        supplier_id |-> 790, supplier_name |-> "Another Supplier Inc",
        contact_email |-> "support@anothersupplier.com"],
       [product_id |-> 125, product_name |-> "Widget C", sku |-> "WID-003",
        warehouse_id |-> 456, warehouse_name |-> "Main Warehouse",
        current_stock |-> 8, threshold |-> 25,
        daily_sales_rate |-> <<6, 5>>,          \* 1.2
        supplier_id |-> 791, supplier_name |-> "Fast Supply Co",
        contact_email |-> "rush@fastsupply.com"] >>

\* int(row['current_stock'] / row['daily_sales_rate']) or 999
SimDaysUntilStockout(current_stock, rate) ==
    IF rate[1] > 0
    THEN PyInt(current_stock * rate[2], rate[1])
    ELSE NO_SALES_DAYS

SimAlertOf(row) ==
    [product_id |-> row.product_id,
     product_name |-> row.product_name,
     sku |-> row.sku,
     warehouse_id |-> row.warehouse_id,
     warehouse_name |-> row.warehouse_name,
     current_stock |-> row.current_stock,
     threshold |-> row.threshold,
     days_until_stockout |->
         CapDays(SimDaysUntilStockout(row.current_stock, row.daily_sales_rate)),
     supplier |-> [id |-> Some(row.supplier_id),
                   name |-> row.supplier_name,
                   contact_email |-> row.contact_email]]

\* key=lambda x: (x['days_until_stockout'], x['current_stock']): a's key is
\* less than or equal to b's
SortKeyLeq(a, b) ==
    \/ a.days_until_stockout < b.days_until_stockout
    \/ /\ a.days_until_stockout = b.days_until_stockout
       /\ a.current_stock <= b.current_stock

\* insert x after the elements of the sorted s whose key is <= x's
InsertSorted(s, x) ==
    LET n == Cardinality({k \in 1..Len(s) : SortKeyLeq(s[k], x)})
    IN SubSeq(s, 1, n) \o <<x>> \o SubSeq(s, n + 1, Len(s))

RECURSIVE ListSort(_)
\* alerts.sort(key=...): stable
ListSort(s) ==
    IF s = <<>> THEN <<>>
    ELSE InsertSorted(ListSort(SubSeq(s, 1, Len(s) - 1)), s[Len(s)])

simulate_low_stock_alerts(company_id) ==
    /\ \/ /\ InvalidCompany(company_id)
          /\ response' = ErrorResponse("simulate_low_stock_alerts", company_id,
                                       "Invalid company ID", 400, FALSE)
       \/ /\ ~InvalidCompany(company_id)
          /\ response' =
                 AlertResponse("simulate_low_stock_alerts", company_id,
                     ListSort([k \in 1..Len(mock_data) |-> SimAlertOf(mock_data[k])]),
                     FALSE)
    /\ UNCHANGED <<snapshot, createVars>>

----------------------------------------------------------------------------
(* Snapshots the alert handlers are run on *)

ProductRow(id, reorder_level, is_active) ==
    [id |-> id,
     name |-> IF id = 1 THEN "Widget A" ELSE "Widget B",
     sku |-> IF id = 1 THEN "WID-001" ELSE "WID-002",
     reorder_level |-> reorder_level,
     is_active |-> is_active]

WarehouseRow(id, company_id, status) ==
    [id |-> id,
     name |-> IF id = 1 THEN "Main Warehouse" ELSE "Secondary Warehouse",
     company_id |-> company_id,
     status |-> status]

InventoryRow(w, p, q) ==
    [warehouse_id |-> w, product_id |-> p, quantity_available |-> q]

MovementRow(w, p, q, t, d) ==
    [warehouse_id |-> w, product_id |-> p, quantity |-> q,
     movement_type |-> t, created_at |-> d]

SupplierRow(id, name, email, contact_person, status) ==
    [id |-> id, name |-> name, email |-> email,
     contact_person |-> contact_person, status |-> status]

LinkRow(p, s, is_active, is_preferred_supplier, cost_price) ==
    [product_id |-> p, supplier_id |-> s, is_active |-> is_active,
     is_preferred_supplier |-> is_preferred_supplier,
     cost_price |-> cost_price]

CompanyIds == {-1, 0, 1, 2}
EvaluationDays == {40}
ReorderLevels == {NULL, Some(0), Some(5), Some(2000)}
Quantities == {-3, 0, 5, 10, 11, 1000, 1998}
MovementQuantities == {-2, -1, 0, 2}
Statuses == {"active", "inactive"}

NoResponse == ErrorResponse("none", 0, "", 0, FALSE)

RECURSIVE SubsetsUpTo(_, _)
\* the subsets of U with at most k elements
SubsetsUpTo(U, k) ==
    IF k = 0 THEN {{}}
    ELSE LET prev == SubsetsUpTo(U, k - 1)
         IN prev \cup {S \cup {a} : S \in prev, a \in U}

ActiveCatalog(r1, r2) ==
    /\ products = {ProductRow(1, r1, TRUE), ProductRow(2, r2, TRUE)}
    /\ warehouses = {WarehouseRow(1, 1, "active"), WarehouseRow(2, 1, "active")}

\* sales at rate 1 in (w1,p1), rate 2 in (w2,p1), rate 3/2 in (w1,p2)
SteadySales(t) ==
    {MovementRow(1, 1, -1, "out", t),
     MovementRow(2, 1, -2, "out", t),
     MovementRow(1, 2, -2, "out", t - 1),
     MovementRow(1, 2, -1, "out", t),
     MovementRow(2, 2, -1, "out", t)}

OneSupplier ==
    /\ suppliers = {SupplierRow(1, Some("Supplier Corp"),
                                Some("orders@supplier.com"), NULL, "active")}
    /\ supplier_products = {LinkRow(1, 1, TRUE, TRUE, 1)}

\* stock levels, thresholds and rates vary
InitStock ==
    /\ \E r1 \in ReorderLevels : ActiveCatalog(r1, NULL)
    /\ \E q1, q2, q3 \in Quantities :
           inventory = {InventoryRow(1, 1, q1), InventoryRow(2, 1, q2),
                        InventoryRow(1, 2, q3)}
    /\ inventory_movements = SteadySales(now)
    /\ OneSupplier

\* the movement log of (w1,p1) varies; (w2,p1) sells, product 2 does not
InitMovements ==
    /\ ActiveCatalog(NULL, NULL)
    /\ inventory = {InventoryRow(w, p, 3) : w \in {1, 2}, p \in {1, 2}}
    /\ \E log \in SubsetsUpTo({MovementRow(1, 1, q, t, d) :
                                  q \in MovementQuantities,
                                  t \in {"in", "out"},
                                  d \in {now - WINDOW_DAYS - 1,
                                         now - WINDOW_DAYS, now}},
                              MaxMovements) :
           inventory_movements =
               log \cup {MovementRow(2, 1, -2, "out", now - 1),
                         MovementRow(2, 2, 4, "in", now)}
    /\ OneSupplier

SupplierLinks(s) ==
    {{}} \cup {{LinkRow(1, s, a, f, c)} :
                  a \in BOOLEAN, f \in BOOLEAN, c \in 1..MaxCost}

\* the supplier directory and the catalog links of product 1 vary
InitSuppliers ==
    /\ ActiveCatalog(NULL, NULL)
    /\ inventory = {InventoryRow(1, 1, 3), InventoryRow(2, 1, 4),
                    InventoryRow(1, 2, 2)}
    /\ inventory_movements = SteadySales(now)
    /\ \E n \in {NULL, Some("Supplier Corp")},
          e \in {<<NULL, NULL>>, <<NULL, Some("Jane Roe")>>,
                 <<Some("orders@supplier.com"), Some("Jane Roe")>>},
          st1 \in Statuses :
           suppliers =
               {SupplierRow(1, n, e[1], e[2], st1),
                SupplierRow(2, Some("Another Supplier Inc"),
                            Some("support@anothersupplier.com"), NULL, "active"),
                SupplierRow(3, Some("Fast Supply Co"),
                            Some("rush@fastsupply.com"), NULL, "active")}
    /\ \E l1 \in SupplierLinks(1), l2 \in SupplierLinks(2),
          l3 \in {l \in SupplierLinks(3) : \A x \in l : x.is_active} :
           supplier_products = l1 \cup l2 \cup l3

\* product and warehouse flags, company scope and inventory rows vary
InitCatalog ==
    /\ \E a1, a2 \in BOOLEAN :
           products = {ProductRow(1, NULL, a1), ProductRow(2, NULL, a2)}
    /\ \E c1, c2 \in {1, 2}, s1, s2 \in Statuses :
           warehouses = {WarehouseRow(1, c1, s1), WarehouseRow(2, c2, s2)}
    /\ \E rows \in SUBSET {InventoryRow(1, 1, 3), InventoryRow(2, 1, 3)} :
           inventory = rows \cup {InventoryRow(1, 2, 3), InventoryRow(2, 2, 3)}
    /\ inventory_movements = SteadySales(now)
    /\ OneSupplier

NoRequests ==
    /\ Product = {}
    /\ Inventory = {}
    /\ next_id = 1
    /\ session = <<>>

Init ==
    /\ now \in EvaluationDays
    /\ InitStock \/ InitMovements \/ InitSuppliers \/ InitCatalog
    /\ response = NoResponse
    /\ NoRequests

Next ==
    \/ \E company_id \in CompanyIds : low_stock_alerts(company_id)
    \/ \E company_id \in CompanyIds : simulate_low_stock_alerts(company_id)

Spec == Init /\ [][Next]_vars

----------------------------------------------------------------------------
(* create_product.py: POST /api/products *)

Requests == 1..NumRequests

\* JSON values of the optional fields
JNumber(n) == [type |-> "number", v |-> n]
JString == [type |-> "string", v |-> 0]      \* a string that is no number
JArray == [type |-> "array", v |-> 0]

\* request.json: NULL stands for an absent key (or a missing body)
Body(name, sku, warehouse_id, price, initial_quantity) ==
    Some([name |-> name, sku |-> sku, warehouse_id |-> warehouse_id,
          price |-> price, initial_quantity |-> initial_quantity])

Payloads ==
    {NULL,
     Body(NULL, Some("WID-001"), Some(1), NULL, NULL),
     Body(Some("Widget A"), Some("WID-001"), Some(1), NULL, NULL),
     Body(Some("Widget A"), Some("WID-001"), Some(1), Some(JNumber(9)), Some(JNumber(-5))),
     Body(Some("Widget B"), Some("WID-002"), Some(1), Some(JNumber(4)), Some(JNumber(3))),
     Body(Some("Widget A"), Some("WID-001"), Some(1), Some(JString), NULL),
     Body(Some("Widget B"), Some("WID-002"), Some(1), NULL, Some(JArray))}

\* if not data or 'name' not in data or 'sku' not in data or ...
MissingFields(data) ==
    \/ data = NULL
    \/ data[1].name = NULL
    \/ data[1].sku = NULL
    \/ data[1].warehouse_id = NULL

\* float(x) / int(x) of an optional field: "ok", "ValueError" or "TypeError"
Conversion(field) ==
    IF field = NULL THEN "ok"
    ELSE IF field[1].type = "number" THEN "ok"
    ELSE IF field[1].type = "string" THEN "ValueError"
    ELSE "TypeError"

\* the converted value, 0 by default
Converted(field) == IF field = NULL THEN 0 ELSE field[1].v

Idle ==
    [pc |-> "idle", data |-> NULL, price |-> 0, initial_quantity |-> 0,
     product_id |-> NULL, tx_product |-> {},
     status |-> 0, body |-> ""]

\* return body, status
Return(s, body, status) ==
    [s EXCEPT !.pc = "done", !.status = status, !.body = body]

\* db.session.rollback(), then return
RollbackReturn(s, body, status) ==
    [Return(s, body, status) EXCEPT !.tx_product = {}]

\* a flush that commits
SessionFlushCommits(committed, pending) == committed \cup pending

\* what db.session.flush() leaves in the committed table: nothing new
SessionFlush(committed, pending) == committed

\* what db.session.commit() leaves in the committed table
SessionCommit(committed, pending) == committed \cup pending

\* data = request.json and the check of the required fields
Validate(r, data) ==
    /\ session[r].pc = "idle"
    /\ IF MissingFields(data)
       THEN session' = [session EXCEPT ![r] =
               Return([@ EXCEPT !.data = data],
                      "Missing required fields: name, sku, warehouse_id", 400)]
       ELSE session' = [session EXCEPT ![r] =
               [@ EXCEPT !.data = data, !.pc = "check_sku"]]
    /\ UNCHANGED <<alertVars, Product, Inventory, next_id>>

\* Product.query.filter_by(sku=data['sku']).first()
CheckSku(r) ==
    /\ session[r].pc = "check_sku"
    /\ \/ /\ \E p \in Product : p.sku = session[r].data[1].sku[1]
          /\ session' = [session EXCEPT ![r] =
                 Return(@, "SKU already exists", 409)]
       \/ /\ ~\E p \in Product : p.sku = session[r].data[1].sku[1]
          /\ session' = [session EXCEPT ![r].pc = "convert"]
       \/ \* the query raises
          session' = [session EXCEPT ![r] =
                 RollbackReturn(@, "Internal server error", 500)]
    /\ UNCHANGED <<alertVars, Product, Inventory, next_id>>

\* price = float(...), initial_quantity = int(...)
ConvertFields(r) ==
    /\ session[r].pc = "convert"
    /\ LET d == session[r].data[1]
           c == IF Conversion(d.price) # "ok" THEN Conversion(d.price)
                ELSE Conversion(d.initial_quantity)
       IN session' = [session EXCEPT ![r] =
              IF c = "ok"
              THEN [@ EXCEPT !.price = Converted(d.price),
                             !.initial_quantity = Converted(d.initial_quantity),
                             !.pc = "flush"]
              ELSE IF c = "ValueError"
              THEN RollbackReturn(@, "Invalid data type for price or quantity", 400)
              ELSE RollbackReturn(@, "Internal server error", 500)]
    /\ UNCHANGED <<alertVars, Product, Inventory, next_id>>

\* db.session.add(product); db.session.flush()
AddProduct(r) ==
    /\ session[r].pc = "flush"
    /\ LET d == session[r].data[1]
           row == [id |-> next_id, name |-> d.name[1], sku |-> d.sku[1],
                   price |-> session[r].price]
       IN \/ /\ session' = [session EXCEPT ![r] =
                    [@ EXCEPT !.product_id = Some(next_id),
                              !.tx_product = {row}, !.pc = "commit"]]
             /\ Product' = SessionFlush(Product, {row})
          \/ \* the INSERT raises (any database error; the repository declares
             \* no constraint on sku, so a second row of a SKU may also go in)
             /\ session' = [session EXCEPT ![r] =
                    RollbackReturn(@, "Internal server error", 500)]
             /\ Product' = Product
    /\ next_id' = next_id + 1
    /\ UNCHANGED <<alertVars, Inventory>>

\* db.session.add(inventory); db.session.commit()
AddInventory(r) ==
    /\ session[r].pc = "commit"
    /\ LET d == session[r].data[1]
           row == [product_id |-> session[r].product_id[1],
                   warehouse_id |-> d.warehouse_id[1],
                   quantity |-> session[r].initial_quantity]
       IN \/ /\ Product' = SessionCommit(Product, session[r].tx_product)
             /\ Inventory' = SessionCommit(Inventory, {row})
             /\ session' = [session EXCEPT ![r] =
                    [Return(@, "Product created", 201) EXCEPT
                        !.tx_product = {}]]
          \/ \* the commit raises
             /\ session' = [session EXCEPT ![r] =
                    RollbackReturn(@, "Internal server error", 500)]
             /\ UNCHANGED <<Product, Inventory>>
    /\ UNCHANGED <<alertVars, next_id>>

create_product(r) ==
    \/ \E data \in Payloads : Validate(r, data)
    \/ CheckSku(r)
    \/ ConvertFields(r)
    \/ AddProduct(r)
    \/ AddInventory(r)

InitCreate ==
    /\ now \in EvaluationDays
    /\ products = {}
    /\ warehouses = {}
    /\ inventory = {}
    /\ inventory_movements = {}
    /\ suppliers = {}
    /\ supplier_products = {}
    /\ response = NoResponse
    /\ Product = {}
    /\ Inventory = {}
    /\ next_id = 1
    /\ session = [r \in Requests |-> Idle]

NextCreate == \E r \in Requests : create_product(r)

SpecCreate == InitCreate /\ [][NextCreate]_vars

----------------------------------------------------------------------------
(* Properties of the alert handlers *)

Alerts == response.body.alerts

IsAlertList(h) == response.handler = h /\ response.status = 200

\* C1: every alert returned by low_stock_alerts has an integer
\* days_until_stockout with 0 <= days_until_stockout <= 999.
C1_DaysWithinZeroAnd999 ==
    IsAlertList("low_stock_alerts") =>
        \A k \in 1..Len(Alerts) :
            /\ Alerts[k].days_until_stockout \in Int
            /\ 0 <= Alerts[k].days_until_stockout
            /\ Alerts[k].days_until_stockout <= 999

\* C2: in the list returned by low_stock_alerts, an alert that precedes
\* another has a smaller days_until_stockout (as output, after the cap), or
\* an equal one and a current_stock that is not larger.
C2_RankedByOutputKey ==
    IsAlertList("low_stock_alerts") =>
        \A j \in 1..Len(Alerts) : \A k \in 1..Len(Alerts) :
            j < k =>
                \/ Alerts[j].days_until_stockout < Alerts[k].days_until_stockout
                \/ /\ Alerts[j].days_until_stockout = Alerts[k].days_until_stockout
                   /\ Alerts[j].current_stock <= Alerts[k].current_stock

\* the threshold the specification gives a product: reorder_level when it
\* is set (0 included), 10 otherwise
EffectiveThreshold(p) ==
    IF p.reorder_level = NULL THEN 10 ELSE p.reorder_level[1]

\* the pair of an inventory row is in the company's scope and has sold
InScope(i, company_id) ==
    /\ \E w \in warehouses :
           w.id = i.warehouse_id /\ w.company_id = company_id /\ w.status = "active"
    /\ \E p \in products : p.id = i.product_id /\ p.is_active
    /\ \E rs \in recent_sales :
           rs.warehouse_id = i.warehouse_id /\ rs.product_id = i.product_id

HasAlert(w, p) ==
    \E k \in 1..Len(Alerts) :
        Alerts[k].warehouse_id = w /\ Alerts[k].product_id = p

\* C3: every alert has current_stock <= threshold (reorder_level when set,
\* 0 included, else 10), and every in-scope pair with a velocity entry that
\* satisfies the inequality is in the output.
C3_Membership ==
    IsAlertList("low_stock_alerts") =>
        /\ \A k \in 1..Len(Alerts) : \A p \in products :
               p.id = Alerts[k].product_id =>
                   /\ Alerts[k].threshold = EffectiveThreshold(p)
                   /\ Alerts[k].current_stock <= EffectiveThreshold(p)
        /\ \A i \in inventory : \A p \in products :
               (/\ p.id = i.product_id
                /\ InScope(i, response.company_id)
                /\ i.quantity_available <= EffectiveThreshold(p))
                   => HasAlert(i.warehouse_id, i.product_id)

\* an alert of a product whose reorder_level is set to 0, and an in-scope
\* pair above its threshold that is left out
C3_Witness ==
    /\ IsAlertList("low_stock_alerts")
    /\ \E k \in 1..Len(Alerts) : \E p \in products :
           /\ p.id = Alerts[k].product_id
           /\ p.reorder_level = Some(0)
           /\ Alerts[k].threshold = 0
    /\ \E i \in inventory : \E p \in products :
           /\ p.id = i.product_id
           /\ InScope(i, response.company_id)
           /\ i.quantity_available > EffectiveThreshold(p)
           /\ ~HasAlert(i.warehouse_id, i.product_id)

\* an 'out' movement of negative quantity in the trailing 30 days
InWindowSale(im) ==
    /\ im.movement_type = "out"
    /\ im.quantity < 0
    /\ now - im.created_at <= 30

\* C4: a pair with no qualifying movement in the trailing 30-day window
\* ('out', quantity < 0, not older than 30 days) has no alert.
C4_NoSalesNoAlert ==
    IsAlertList("low_stock_alerts") =>
        \A k \in 1..Len(Alerts) :
            \E im \in inventory_movements :
                /\ im.warehouse_id = Alerts[k].warehouse_id
                /\ im.product_id = Alerts[k].product_id
                /\ InWindowSale(im)

\* a low-stock pair whose only movements are an 'out' of quantity >= 0, an
\* 'in' or an old one, left without alert
C4_Witness ==
    /\ IsAlertList("low_stock_alerts")
    /\ response.company_id = 1
    /\ \E i \in inventory :
           /\ i.quantity_available <= 10
           /\ \E im \in inventory_movements :
                  /\ im.warehouse_id = i.warehouse_id
                  /\ im.product_id = i.product_id
                  /\ im.movement_type = "out"
                  /\ (im.quantity >= 0 \/ now - im.created_at > 30)
           /\ \A im \in inventory_movements :
                  (im.warehouse_id = i.warehouse_id /\ im.product_id = i.product_id)
                      => ~InWindowSale(im)
           /\ ~HasAlert(i.warehouse_id, i.product_id)

\* the daily rate behind an alert of the response
RateOf(a) ==
    IF response.handler = "low_stock_alerts"
    THEN (CHOOSE rs \in recent_sales :
              rs.warehouse_id = a.warehouse_id /\ rs.product_id = a.product_id
         ).daily_sales_rate
    ELSE mock_data[CHOOSE n \in 1..Len(mock_data) :
                       mock_data[n].product_id = a.product_id].daily_sales_rate

\* the least integer not below n / d, for d > 0
Ceiling(n, d) == CHOOSE c \in -4000..4000 : (c - 1) * d < n /\ n <= c * d

\* C5: for every alert with daily_rate > 0, days_until_stockout is the
\* ceiling of current_stock / daily_rate, capped at 999, in the endpoint
\* and in simulate_low_stock_alerts alike (5 at 0.4 gives 13, 8 at 1.2
\* gives 7).
C5_CeilingOfStockOverRate ==
    (IsAlertList("low_stock_alerts") \/ IsAlertList("simulate_low_stock_alerts")) =>
        \A k \in 1..Len(Alerts) :
            LET rate == RateOf(Alerts[k])
                days == Ceiling(Alerts[k].current_stock * rate[2], rate[1])
            IN rate[1] > 0 =>
                   Alerts[k].days_until_stockout = IF days > 999 THEN 999 ELSE days

\* the links of a product the specification allows as candidates
EligibleLinks(p) ==
    {sp \in supplier_products :
        /\ sp.product_id = p
        /\ sp.is_active = TRUE
        /\ \E s \in suppliers : s.id = sp.supplier_id /\ s.status = "active"}

\* the links of the supplier an alert carries
ChosenLinks(a) ==
    {sp \in supplier_products :
        sp.product_id = a.product_id /\ Some(sp.supplier_id) = a.supplier.id}

\* C6: the supplier of an alert is chosen among the links with is_active
\* whose supplier is 'active'; preferred wins over not preferred, then the
\* lowest cost_price wins; all alerts of a product carry the same supplier.
C6_SupplierSelection ==
    IsAlertList("low_stock_alerts") =>
        /\ \A k \in 1..Len(Alerts) :
               Alerts[k].supplier.id # NULL =>
                   /\ ChosenLinks(Alerts[k]) # {}
                   /\ ChosenLinks(Alerts[k]) \subseteq EligibleLinks(Alerts[k].product_id)
                   /\ \A ch \in ChosenLinks(Alerts[k]) :
                      \A c \in EligibleLinks(Alerts[k].product_id) :
                          /\ c.is_preferred_supplier => ch.is_preferred_supplier
                          /\ (c.is_preferred_supplier = ch.is_preferred_supplier)
                                 => ch.cost_price <= c.cost_price
        /\ \A j \in 1..Len(Alerts) : \A k \in 1..Len(Alerts) :
               Alerts[j].product_id = Alerts[k].product_id
                   => Alerts[j].supplier = Alerts[k].supplier

\* a preferred link wins over a cheaper one that is not preferred while a
\* second preferred link is no cheaper, in two warehouses
C6_Witness ==
    /\ IsAlertList("low_stock_alerts")
    /\ \E j \in 1..Len(Alerts) : \E k \in 1..Len(Alerts) :
           /\ Alerts[j].product_id = Alerts[k].product_id
           /\ Alerts[j].warehouse_id # Alerts[k].warehouse_id
           /\ \E ch \in ChosenLinks(Alerts[k]) :
              \E c, d \in EligibleLinks(Alerts[k].product_id) :
                  /\ ch.is_preferred_supplier
                  /\ ~c.is_preferred_supplier /\ c.cost_price < ch.cost_price
                  /\ d.is_preferred_supplier /\ d.cost_price >= ch.cost_price
                  /\ d # ch

\* C7: a qualifying pair whose product has no active link to an active
\* supplier still has an alert, with the "No Supplier Found" supplier; a
\* product with a candidate has that candidate's supplier id, not null.
C7_NoSupplierSentinel ==
    IsAlertList("low_stock_alerts") =>
        /\ \A i \in inventory : \A p \in products :
               (/\ p.id = i.product_id
                /\ InScope(i, response.company_id)
                /\ i.quantity_available <= EffectiveThreshold(p)
                /\ EligibleLinks(p.id) = {})
                   => HasAlert(i.warehouse_id, i.product_id)
        /\ \A k \in 1..Len(Alerts) :
               IF EligibleLinks(Alerts[k].product_id) = {}
               THEN Alerts[k].supplier =
                        [id |-> NULL, name |-> "No Supplier Found",
                         contact_email |-> "No Contact Available"]
               ELSE /\ Alerts[k].supplier.id # NULL
                    /\ \E c \in EligibleLinks(Alerts[k].product_id) :
                           Alerts[k].supplier.id = Some(c.supplier_id)

\* an alert without supplier for a product whose only links are inactive or
\* lead to an inactive supplier
C7_Witness ==
    /\ IsAlertList("low_stock_alerts")
    /\ \E k \in 1..Len(Alerts) :
           /\ Alerts[k].supplier.id = NULL
           /\ EligibleLinks(Alerts[k].product_id) = {}
           /\ \E sp \in supplier_products : sp.product_id = Alerts[k].product_id

\* C8: two invocations of low_stock_alerts for the same company_id on an
\* unchanged snapshot yield the same alerts in the same order with the same
\* suppliers.
C8_Idempotent ==
    [][(/\ IsAlertList("low_stock_alerts")
        /\ response'.handler = "low_stock_alerts"
        /\ response'.status = 200
        /\ response'.company_id = response.company_id
        /\ snapshot' = snapshot)
           => response'.body = response.body]_vars

IsValidationFailure ==
    /\ response.status = 400
    /\ DOMAIN response.body = {"error"}
    /\ response.body.error = "Invalid company ID"

\* C9: for company_id <= 0 both handlers return the validation failure
\* ("Invalid company ID", 400) without reading the snapshot, never an alert
\* list; for company_id > 0 the result is not this validation failure.
C9_InvalidCompanyRejected ==
    response.handler \in {"low_stock_alerts", "simulate_low_stock_alerts"} =>
        /\ response.company_id <= 0 =>
               IsValidationFailure /\ ~response.queried
        /\ response.company_id > 0 => ~IsValidationFailure

\* low_stock_alerts has rejected company_id 0
C9_Witness ==
    /\ response.handler = "low_stock_alerts"
    /\ response.company_id = 0
    /\ IsValidationFailure

----------------------------------------------------------------------------
(* Properties of create_product *)

\* the committed rows request r has created
ProductsOf(r) == {p \in Product : session[r].product_id = Some(p.id)}
InventoryOf(r) == {i \in Inventory : session[r].product_id = Some(i.product_id)}

\* C10: the committed state holds a Product row created by a request iff
\* it holds that request's Inventory row: a request that returned 201 has
\* created one Product and one Inventory row, any other request neither.
C10_AtomicCreate ==
    /\ \A p \in Product : \E r \in Requests : p \in ProductsOf(r)
    /\ \A i \in Inventory : \E r \in Requests : i \in InventoryOf(r)
    /\ \A r \in Requests :
           IF session[r].pc = "done" /\ session[r].status = 201
           THEN Cardinality(ProductsOf(r)) = 1 /\ Cardinality(InventoryOf(r)) = 1
           ELSE ProductsOf(r) = {} /\ InventoryOf(r) = {}

\* one request has committed, another has failed after its flush
C10_Witness ==
    \E r, q \in Requests :
        /\ session[r].pc = "done" /\ session[r].status = 201
        /\ Cardinality(ProductsOf(r)) = 1
        /\ session[q].pc = "done" /\ session[q].status = 500
        /\ session[q].product_id # NULL

\* request r leaves its existence check while its SKU is committed
ChecksCommittedSku(r) ==
    /\ session[r].pc = "check_sku"
    /\ session'[r].pc # "check_sku"
    /\ \E p \in Product : p.sku = session[r].data[1].sku[1]

\* C11: after any interleaving of create_product requests, two with the same
\* SKU that both pass the existence check before either commits included,
\* no two committed Product rows share a SKU; a request whose SKU is
\* committed when it checks is rejected with "SKU already exists" (409, or
\* the 500 of the exception path when the query itself fails) and creates
\* no row.
C11_UniqueSku ==
    [][/\ \A p \in Product' : \A q \in Product' : p.sku = q.sku => p = q
       /\ \A r \in Requests :
              ChecksCommittedSku(r) =>
                  /\ session'[r].pc = "done"
                  /\ session'[r].status \in {409, 500}
                  /\ session'[r].status = 409
                         => session'[r].body = "SKU already exists"
                  /\ Product' = Product
                  /\ Inventory' = Inventory]_vars

====
